---- MODULE Spec2Model ----
(***************************************************************************)
(* Model of hatena/scripts/generate-article.py: the pipeline of main()     *)
(* (credential check, fetch, dedup, score, select, draft, write) and the   *)
(* pure helpers it calls.                                                  *)
(*                                                                         *)
(* Text is a sequence of tokens.  The characters the code looks at are     *)
(* tokens of their own: the marker "arxiv.org/abs/", ")", "]", " " and the *)
(* tab; every other token stands for a run of characters that contains     *)
(* none of them.  A document is a sequence of lines (what splitlines()     *)
(* returns), a line is a sequence of tokens.                               *)
(***************************************************************************)
EXTENDS Integers, Sequences, FiniteSets, TLC

VARIABLES pc, apiKey, feed, mdFiles, papers, existing_ids, candidates,
          reply, scores, best, best_index, paper, related_papers,
          article_body, written, stderr, exitStatus,
          listingCalls, scoreCalls, draftCalls, scoreOutcome,
          line, aids, scanned

vars == <<pc, apiKey, feed, mdFiles, papers, existing_ids, candidates,
          reply, scores, best, best_index, paper, related_papers,
          article_body, written, stderr, exitStatus,
          listingCalls, scoreCalls, draftCalls, scoreOutcome,
          line, aids, scanned>>

(***************************************************************************)
(* Bounds of the model.                                                    *)
(***************************************************************************)
MaxFetch == 3

MaxScores == 2

MaxPublished == 2

MaxLineLen == 4

(***************************************************************************)
(* Text helpers.                                                           *)
(***************************************************************************)
URL_MARKER == "arxiv.org/abs/"

TAB == "\t"

\* the characters str.strip() removes that can occur inside one line
Whitespace == {" ", TAB}

IndexOf(s, c) ==
  IF \E i \in 1..Len(s) : s[i] = c
  THEN CHOOSE i \in 1..Len(s) : s[i] = c /\ \A j \in 1..(i - 1) : s[j] # c
  ELSE 0

\* s.split(c)[0]
SplitHead(s, c) ==
  IF IndexOf(s, c) = 0 THEN s ELSE SubSeq(s, 1, IndexOf(s, c) - 1)

\* everything after the first occurrence of c (c occurs in s)
AfterFirst(s, c) == SubSeq(s, IndexOf(s, c) + 1, Len(s))

\* line.split("arxiv.org/abs/")[1]
SplitSecond(s) == SplitHead(AfterFirst(s, URL_MARKER), URL_MARKER)

RECURSIVE LStrip(_)
LStrip(s) ==
  IF s # <<>> /\ Head(s) \in Whitespace THEN LStrip(Tail(s)) ELSE s

RECURSIVE RStrip(_)
RStrip(s) ==
  IF s # <<>> /\ s[Len(s)] \in Whitespace
  THEN RStrip(SubSeq(s, 1, Len(s) - 1))
  ELSE s

Strip(s) == RStrip(LStrip(s))

\* the identifiers one line contributes (lines 144-150)
ExtractId(s) ==
  IF \E i \in 1..Len(s) : s[i] = URL_MARKER
  THEN LET aid == Strip(SplitHead(SplitHead(SplitHead(SplitSecond(s), ")"), "]"), " "))
       IN  IF aid # <<>> THEN {aid} ELSE {}
  ELSE {}

LinesOf(doc) == {doc[i] : i \in 1..Len(doc)}

\* find_existing_arxiv_ids over the markdown files of both directories
find_existing_arxiv_ids(files) ==
  UNION {UNION {ExtractId(l) : l \in LinesOf(doc)} : doc \in files}

(***************************************************************************)
(* Data.                                                                   *)
(***************************************************************************)
\* Paper(...) as fetch_arxiv_papers builds it; url is derived from the id
Paper(id, title) ==
  [arxiv_id |-> id, title |-> title, url |-> <<"https://", URL_MARKER>> \o id]

PaperA == Paper(<<"A">>, <<"Scaling", " ", "laws">>)

PaperB == Paper(<<"B">>, <<"Edge", " ", "[vision]">>)

\* a title is free text: this one quotes an arXiv address
PaperC == Paper(<<"C">>, <<"On", " ", URL_MARKER, " ", "links">>)

Papers == {PaperA, PaperB, PaperC}

NoPaper == Paper(<<>>, <<>>)

RECURSIVE SeqsUpTo(_, _)
SeqsUpTo(S, n) ==
  IF n = 0 THEN {<<>>}
  ELSE LET shorter == SeqsUpTo(S, n - 1)
       IN  shorter \cup {Append(q, x) : q \in {r \in shorter : Len(r) = n - 1}, x \in S}

\* what the listing API can return: newest first, at most max_results entries
Feeds == SeqsUpTo(Papers, MaxFetch)

ApiKeys == {"", "sk-key"}

\* JSON literals the reply can carry under "index", with int() of each
IntLiterals == {"-1", "0", "1", "2"}

IntOf(lit) ==
  CASE lit = "-1" -> 0 - 1
    [] lit = "0" -> 0
    [] lit = "1" -> 1
    [] lit = "2" -> 2

\* objects of the reply; the three criteria add up to 5
Scored(i, t) ==
  [index |-> i, novelty |-> 1, practical |-> 2, excitement |-> 2, total |-> t]

WithoutIndex(t) == [novelty |-> 1, practical |-> 2, excitement |-> 2, total |-> t]

WithoutTotal(i) == [index |-> i, novelty |-> 1, practical |-> 2, excitement |-> 2]

\* what a reply is made of: "index" or "total" may be missing, the index
\* may be negative, too large or no number, and the total may differ from
\* the sum of the criteria
ScoreRecords ==
  {Scored("0", 5), Scored("1", 9), Scored("-1", 9), Scored("2", 9),
   Scored("\"abc\"", 9), WithoutIndex(9), WithoutTotal("1")}

\* outcomes of the scoring call that the except clause of main catches
CaughtScoreFailures == {"http_error", "api_error", "empty_content", "non_json"}

\* outcomes that raise something else (URLError or a timeout, AttributeError)
UncaughtScoreFailures == {"url_error", "not_array", "non_object_items"}

NoReply == [kind |-> "none", records |-> <<>>]

ScoreReplies ==
  {[kind |-> k, records |-> <<>>] : k \in CaughtScoreFailures \cup UncaughtScoreFailures}
  \cup {[kind |-> "array", records |-> r] : r \in SeqsUpTo(ScoreRecords, MaxScores)}

FallbackScore == [index |-> "0", total |-> 0, reason |-> "fallback"]

NoScore == [reason |-> "none"]

\* the text the drafting call can return
BodyTexts == { << <<"## Summary">>, <<"The", " ", "method", " ", "(sketch)">> >> }

(***************************************************************************)
(* score_papers: the sort of line 259.                                     *)
(***************************************************************************)
\* key=lambda s: s.get("total", 0)
SortKey(s) == IF "total" \in DOMAIN s THEN s.total ELSE 0

\* r goes behind every record whose key is at least its own
InsertByTotal(sorted, r) ==
  LET n == Cardinality({i \in 1..Len(sorted) : SortKey(sorted[i]) >= SortKey(r)})
  IN  SubSeq(sorted, 1, n) \o <<r>> \o SubSeq(sorted, n + 1, Len(sorted))

RECURSIVE SortFrom(_, _)
SortFrom(sorted, rest) ==
  IF rest = <<>> THEN sorted
  ELSE SortFrom(InsertByTotal(sorted, Head(rest)), Tail(rest))

\* a sort that puts a record before the records of equal total
InsertBeforeEqual(sorted, r) ==
  LET n == Cardinality({i \in 1..Len(sorted) : SortKey(sorted[i]) > SortKey(r)})
  IN  SubSeq(sorted, 1, n) \o <<r>> \o SubSeq(sorted, n + 1, Len(sorted))

RECURSIVE SortFromUnstable(_, _)
SortFromUnstable(sorted, rest) ==
  IF rest = <<>> THEN sorted
  ELSE SortFromUnstable(InsertBeforeEqual(sorted, Head(rest)), Tail(rest))

SortScoresUnstable(records) == SortFromUnstable(<<>>, records)

\* scores.sort(key=..., reverse=True): descending and stable
SortScores(records) == SortFrom(<<>>, records)

(***************************************************************************)
(* Selection (lines 431-444).                                              *)
(***************************************************************************)
\* best.get("index", 0), as the JSON literal
IndexLiteral(s) == IF "index" \in DOMAIN s THEN s.index ELSE "0"

\* lines 432-434
ClampIndex(i, cands) == IF i < 0 \/ i >= Len(cands) THEN 0 ELSE i

\* line 419
FilterCovered(ps, ids) ==
  LET keep(p) == p.arxiv_id \notin ids IN SelectSeq(ps, keep)

\* the related papers taken to be everything behind the first candidate
RelatedDropFirst(cands, chosen) == Tail(cands)

\* line 444
RelatedTo(cands, chosen) ==
  LET other(p) == p.arxiv_id # chosen.arxiv_id IN SelectSeq(cands, other)

(***************************************************************************)
(* Assembly (lines 306-343, 456-460).                                      *)
(***************************************************************************)
CATEGORY_LABEL == "Computer Vision"

\* the lines of "\n---\n> **...**: [title](url)\n"
build_footer(p) ==
  << <<>>,
     <<"---">>,
     <<">", " ", "**source-paper**:", " ", "[">> \o p.title \o <<"]", "(">> \o p.url \o <<")">> >>

build_frontmatter(p, label) ==
  << <<"---">>,
     <<"Title:", " ", "\"", "[paper-review]">> \o p.title \o <<"\"">>,
     <<"Category:">>,
     <<"-", " ", "paper-review">>,
     <<"-", " ", label>>,
     <<"Draft:", " ", "true">>,
     <<"---">> >>

\* f"{article_body}\n{footer}"
BodyOnly(body, p) == body \o build_footer(p)

\* f"{frontmatter}\n\n{body_only}"
FullArticle(body, p) ==
  build_frontmatter(p, CATEGORY_LABEL) \o << <<>> >> \o BodyOnly(body, p)

(***************************************************************************)
(* The run: main(), one action per step between two external calls.  When  *)
(* the process ends its locals are gone: what is left is the exit status,  *)
(* the error stream, the files and the calls that were made.               *)
(***************************************************************************)
NoStatus == 0 - 1

env == <<apiKey, feed, mdFiles>>

calls == <<listingCalls, scoreCalls, draftCalls, scoreOutcome>>

scan == <<line, aids, scanned>>

\* the values the locals of main have before they are assigned
NoLocals(ps, ids, cs, rp, sc, b, bi, p, rel, body) ==
  /\ ps = <<>>
  /\ ids = {}
  /\ cs = <<>>
  /\ rp = NoReply
  /\ sc = <<>>
  /\ b = NoScore
  /\ bi = 0
  /\ p = NoPaper
  /\ rel = <<>>
  /\ body = <<>>

NoScan ==
  /\ line = <<>>
  /\ aids = {}
  /\ scanned = FALSE

Init ==
  /\ pc = "start"
  /\ apiKey \in ApiKeys
  /\ feed \in Feeds
  /\ mdFiles = {}
  /\ NoLocals(papers, existing_ids, candidates, reply, scores, best, best_index,
              paper, related_papers, article_body)
  /\ written = {}
  /\ stderr = <<>>
  /\ exitStatus = NoStatus
  /\ listingCalls = 0
  /\ scoreCalls = 0
  /\ draftCalls = 0
  /\ scoreOutcome = "none"
  /\ NoScan

\* print(msg, file=sys.stderr); sys.exit(1)
Fatal(msg) ==
  /\ stderr' = Append(stderr, msg)
  /\ exitStatus' = 1
  /\ pc' = "exit"
  /\ NoLocals(papers', existing_ids', candidates', reply', scores', best',
              best_index', paper', related_papers', article_body')

\* an exception nothing catches: the interpreter prints the traceback to
\* the error stream and exits with status 1
Uncaught == Fatal("Traceback (most recent call last)")

\* the credential test left out
CheckKeyNoExit ==
  /\ pc = "start"
  /\ \E promptReadable \in BOOLEAN :
       IF promptReadable
       THEN /\ pc' = "fetch"
            /\ UNCHANGED <<stderr, exitStatus, papers, existing_ids, candidates,
                           reply, scores, best, best_index, paper, related_papers,
                           article_body>>
       ELSE Uncaught
  /\ UNCHANGED <<env, calls, scan, written>>

\* lines 382-390: the credential, then the prompt template
CheckKey ==
  /\ pc = "start"
  /\ IF apiKey = "" THEN Fatal("Error: ANTHROPIC_API_KEY is required")
     ELSE \E promptReadable \in BOOLEAN :
            IF promptReadable
            THEN /\ pc' = "fetch"
                 /\ UNCHANGED <<stderr, exitStatus, papers, existing_ids, candidates,
                                reply, scores, best, best_index, paper,
                                related_papers, article_body>>
            ELSE Uncaught
  /\ UNCHANGED <<env, calls, scan, written>>

\* lines 397-409
Fetch ==
  /\ pc = "fetch"
  /\ listingCalls' = listingCalls + 1
  /\ \E outcome \in {"ok", "http_error", "url_error"} :
       CASE outcome = "http_error" -> Fatal("Error fetching from arXiv")
         [] outcome = "url_error" -> Uncaught
         [] outcome = "ok" ->
              IF feed = <<>> THEN Fatal("No papers found")
              ELSE /\ papers' = feed
                   /\ pc' = "dedup"
                   /\ UNCHANGED <<stderr, exitStatus, existing_ids, candidates, reply,
                                  scores, best, best_index, paper, related_papers,
                                  article_body>>
  /\ UNCHANGED <<env, scoreCalls, draftCalls, scoreOutcome, scan, written>>

\* lines 411-422
Dedup ==
  /\ pc = "dedup"
  /\ LET ids == find_existing_arxiv_ids(mdFiles)
         cands == FilterCovered(papers, ids)
     IN  IF cands = <<>> THEN Fatal("All recent papers have already been covered")
         ELSE /\ existing_ids' = ids
              /\ candidates' = cands
              /\ pc' = "score"
              /\ UNCHANGED <<stderr, exitStatus, papers, reply, scores, best,
                             best_index, paper, related_papers, article_body>>
  /\ UNCHANGED <<env, calls, scan, written>>

\* a scoring step that calls again after a failure
ScoreRetry ==
  /\ pc = "score"
  /\ scoreCalls' = scoreCalls + 1
  /\ \E r \in ScoreReplies :
       /\ scoreOutcome' = r.kind
       /\ CASE r.kind \in UncaughtScoreFailures -> Uncaught
            [] r.kind \in CaughtScoreFailures ->
                 /\ reply' = r
                 /\ stderr' = Append(stderr, "Scoring failed, retrying")
                 /\ pc' = "score"
                 /\ UNCHANGED <<scores, exitStatus, papers, existing_ids, candidates, best,
                                best_index, paper, related_papers, article_body>>
            [] r.kind = "array" ->
                 /\ reply' = r
                 /\ scores' = SortScores(r.records)
                 /\ pc' = "select"
                 /\ UNCHANGED <<stderr, exitStatus, papers, existing_ids, candidates,
                                best, best_index, paper, related_papers, article_body>>
  /\ UNCHANGED <<env, listingCalls, draftCalls, scan, written>>

\* lines 425-429 with score_papers (229-260)
Score ==
  /\ pc = "score"
  /\ scoreCalls' = scoreCalls + 1
  /\ \E r \in ScoreReplies :
       /\ scoreOutcome' = r.kind
       /\ CASE r.kind \in UncaughtScoreFailures -> Uncaught
            [] r.kind \in CaughtScoreFailures ->
                 /\ reply' = r
                 /\ scores' = <<FallbackScore>>
                 /\ stderr' = Append(stderr, "Scoring failed, falling back to latest paper")
                 /\ pc' = "select"
                 /\ UNCHANGED <<exitStatus, papers, existing_ids, candidates, best,
                                best_index, paper, related_papers, article_body>>
            [] r.kind = "array" ->
                 /\ reply' = r
                 /\ scores' = SortScores(r.records)
                 /\ pc' = "select"
                 /\ UNCHANGED <<stderr, exitStatus, papers, existing_ids, candidates,
                                best, best_index, paper, related_papers, article_body>>
  /\ UNCHANGED <<env, listingCalls, draftCalls, scan, written>>

\* the index resolved against the list that was fetched
FetchedList == papers

\* the list the index of the best score is resolved against (lines 433-436)
SelectionList == candidates

\* lines 431-444
Select ==
  /\ pc = "select"
  /\ IF scores = <<>> THEN Uncaught
     ELSE LET b == scores[1]
              lit == IndexLiteral(b)
          IN  IF lit \notin IntLiterals THEN Uncaught
              ELSE /\ best' = b
                   /\ best_index' = ClampIndex(IntOf(lit), candidates)
                   /\ paper' = SelectionList[best_index' + 1]
                   /\ related_papers' = RelatedTo(candidates, paper')
                   /\ pc' = "draft"
                   /\ UNCHANGED <<stderr, exitStatus, papers, existing_ids, candidates,
                                  reply, scores, article_body>>
  /\ UNCHANGED <<env, calls, scan, written>>

DraftOutcomes == {"ok", "http_error", "url_error", "api_error", "empty_content"}

\* lines 446-454 with generate_article_with_claude and _call_claude_api
Draft ==
  /\ pc = "draft"
  /\ draftCalls' = draftCalls + 1
  /\ \E outcome \in DraftOutcomes :
       CASE outcome = "ok" ->
              /\ \E text \in BodyTexts : article_body' = text
              /\ pc' = "write"
              /\ UNCHANGED <<stderr, exitStatus, papers, existing_ids, candidates, reply,
                             scores, best, best_index, paper, related_papers>>
         [] outcome = "http_error" -> Fatal("Error calling Claude API")
         [] OTHER -> Uncaught
  /\ UNCHANGED <<env, listingCalls, scoreCalls, scoreOutcome, scan, written>>

\* the four lines of the metadata file (lines 476-481)
Metadata(p, b) ==
  << <<"arxiv_id=">> \o p.arxiv_id,
     <<"title=">> \o p.title,
     <<"category=", "cs.CV">>,
     <<"score=", IF "total" \in DOMAIN b THEN ToString(b.total) ELSE "?">> >>

\* lines 456-483; main returns and the process exits with status 0
Write ==
  /\ pc = "write"
  /\ \E withMetadata \in BOOLEAN :
       written' =
         {[name |-> "output.md", content |-> BodyOnly(article_body, paper)],
          [name |-> "output.full.md", content |-> FullArticle(article_body, paper)]}
         \cup (IF withMetadata
               THEN {[name |-> "metadata.txt", content |-> Metadata(paper, best)]}
               ELSE {})
  /\ exitStatus' = 0
  /\ pc' = "exit"
  /\ NoLocals(papers', existing_ids', candidates', reply', scores', best',
              best_index', paper', related_papers', article_body')
  /\ UNCHANGED <<env, calls, scan, stderr>>

\* the full document of a finished run is stored under the draft directory
Publish ==
  /\ pc = "exit"
  /\ exitStatus = 0
  /\ Cardinality(mdFiles) < MaxPublished
  /\ \E f \in written :
       /\ f.name = "output.full.md"
       /\ f.content \notin mdFiles
       /\ mdFiles' = mdFiles \cup {f.content}
  /\ UNCHANGED <<pc, apiKey, feed, papers, existing_ids, candidates, reply, scores,
                 best, best_index, paper, related_papers, article_body, written,
                 stderr, exitStatus, calls, scan>>

\* the script is started again: same listing, the files as they are now
NewRun ==
  /\ pc = "exit"
  /\ pc' = "start"
  /\ apiKey' \in ApiKeys
  /\ written' = {}
  /\ stderr' = <<>>
  /\ exitStatus' = NoStatus
  /\ listingCalls' = 0
  /\ scoreCalls' = 0
  /\ draftCalls' = 0
  /\ scoreOutcome' = "none"
  /\ UNCHANGED <<feed, mdFiles, papers, existing_ids, candidates, reply, scores,
                 best, best_index, paper, related_papers, article_body, scan>>

Next ==
  \/ CheckKey
  \/ Fetch
  \/ Dedup
  \/ Score
  \/ Select
  \/ Draft
  \/ Write
  \/ Publish
  \/ NewRun

Spec == Init /\ [][Next]_vars

(***************************************************************************)
(* The extraction of find_existing_arxiv_ids applied to one line.          *)
(***************************************************************************)
LineTokens == {URL_MARKER, ")", "]", " ", TAB, "2401.12345", "trailing"}

InitExtract ==
  /\ pc = "idle"
  /\ apiKey = ""
  /\ feed = <<>>
  /\ mdFiles = {}
  /\ NoLocals(papers, existing_ids, candidates, reply, scores, best, best_index,
              paper, related_papers, article_body)
  /\ written = {}
  /\ stderr = <<>>
  /\ exitStatus = NoStatus
  /\ listingCalls = 0
  /\ scoreCalls = 0
  /\ draftCalls = 0
  /\ scoreOutcome = "none"
  /\ line \in SeqsUpTo(LineTokens, MaxLineLen)
  /\ aids = {}
  /\ scanned = FALSE

\* lines 143-150 for one line of a file
ScanLine ==
  /\ pc = "idle"
  /\ ~scanned
  /\ aids' = ExtractId(line)
  /\ scanned' = TRUE
  /\ UNCHANGED <<pc, env, papers, existing_ids, candidates, reply, scores, best,
                 best_index, paper, related_papers, article_body, written, stderr,
                 exitStatus, calls, line>>

NextExtract == ScanLine

SpecExtract == InitExtract /\ [][NextExtract]_vars

(***************************************************************************)
(* Properties.                                                             *)
(***************************************************************************)
Range(s) == {s[i] : i \in 1..Len(s)}

Selected == pc \in {"draft", "write"}

DistinctIds(ps) ==
  \A i, j \in 1..Len(ps) : ps[i].arxiv_id = ps[j].arxiv_id => i = j

\* s with the element at position k taken out
Without(s, k) == SubSeq(s, 1, k - 1) \o SubSeq(s, k + 1, Len(s))

ScoreFailures == CaughtScoreFailures \cup UncaughtScoreFailures

C2_ScoringFailureFallsBack ==
  scoreOutcome \in ScoreFailures =>
    /\ ~(pc = "exit" /\ draftCalls = 0)
    /\ pc = "select" => scores = <<FallbackScore>>
    /\ Selected => paper = candidates[1]

\* C3: the index is resolved against the candidate list after dedup, so the
\* chosen paper and every related paper are outside the coverage set of the
\* run; fetch [A,B,C] with B covered and scores [{0,5},{1,9}] chooses C
\* with related [A].
C3_IndexAgainstCandidates ==
  /\ Selected =>
       /\ existing_ids = find_existing_arxiv_ids(mdFiles)
       /\ candidates = FilterCovered(papers, existing_ids)
       /\ paper = candidates[best_index + 1]
       /\ paper.arxiv_id \notin existing_ids
       /\ \A r \in Range(related_papers) : r.arxiv_id \notin existing_ids
  /\ ( /\ Selected
       /\ papers = <<PaperA, PaperB, PaperC>>
       /\ existing_ids = {PaperB.arxiv_id}
       /\ reply.records = <<Scored("0", 5), Scored("1", 9)>> )
     => (paper = PaperC /\ related_papers = <<PaperA>>)

C3_Witness ==
  /\ pc = "draft"
  /\ papers = <<PaperA, PaperB, PaperC>>
  /\ existing_ids = {PaperB.arxiv_id}
  /\ reply.records = <<Scored("0", 5), Scored("1", 9)>>
  /\ paper = PaperC

\* C4: once the full document of a finished run is among the scanned files,
\* the paper it was written for is in the coverage set of every later run
\* and is neither a candidate nor chosen.
C4_DedupIdempotence ==
  \A p \in Papers, body \in BodyTexts :
    (FullArticle(body, p) \in mdFiles /\ pc \in {"score", "select", "draft", "write"}) =>
      /\ p.arxiv_id \in existing_ids
      /\ p \notin Range(candidates)
      /\ paper # p

\* the claim's reading of lines 146-150: cut at the first ")", "]" or
\* whitespace character, then trim
RECURSIVE UntilAny(_, _)
UntilAny(s, stops) ==
  IF s = <<>> \/ Head(s) \in stops THEN <<>>
  ELSE <<Head(s)>> \o UntilAny(Tail(s), stops)

ClaimedIds(s) ==
  IF \E i \in 1..Len(s) : s[i] = URL_MARKER
  THEN LET aid == Strip(UntilAny(SplitSecond(s), {")", "]"} \cup Whitespace))
       IN  IF aid # <<>> THEN {aid} ELSE {}
  ELSE {}

\* C5: the identifier taken from a line is the text after the marker up to
\* the first ")", "]" or whitespace character, trimmed.
C5_ExtractUpToWhitespace == scanned => aids = ClaimedIds(line)

\* C6: every fatal condition ends the run with a message on the error
\* stream and a non-zero status, and a scoring failure never ends the run.
C6_FatalAndScoring ==
  /\ (pc = "exit" /\ written = {}) => (stderr # <<>> /\ exitStatus = 1)
  /\ (pc = "exit" /\ scoreOutcome \in ScoreFailures) => draftCalls = 1

\* C7: with the credential missing or empty the run ends with a non-zero
\* status and neither the listing API nor the model API is contacted.
C7_NoCredentialNoNetwork ==
  apiKey = "" =>
    /\ listingCalls = 0
    /\ scoreCalls = 0
    /\ draftCalls = 0
    /\ pc \in {"start", "exit"}
    /\ pc = "exit" => (exitStatus = 1 /\ written = {})

C7_Witness ==
  /\ pc = "exit"
  /\ apiKey = ""
  /\ exitStatus = 1
  /\ stderr = <<"Error: ANTHROPIC_API_KEY is required">>

\* C8: whatever list the Scorer returns (an empty array and a non-integer
\* index included), one paper is chosen, at a position within range, with
\* an absent index read as 0 and an out-of-range index clamped to 0.
C8_AlwaysOneInRange ==
  /\ (pc = "exit" /\ scoreOutcome \in {"array"} \cup CaughtScoreFailures) => draftCalls = 1
  /\ Selected =>
       /\ best = scores[1]
       /\ best_index \in 0..(Len(candidates) - 1)
       /\ paper = candidates[best_index + 1]

\* position of the first record of s with the largest sort key
FirstMax(s) ==
  CHOOSE i \in 1..Len(s) :
    /\ \A j \in 1..Len(s) : SortKey(s[j]) <= SortKey(s[i])
    /\ \A j \in 1..(i - 1) : SortKey(s[j]) < SortKey(s[i])

\* t is s sorted by reported total, descending, equal totals in the order of s
IsStableDescending(s, t) ==
  /\ Len(t) = Len(s)
  /\ \E f \in [1..Len(s) -> 1..Len(s)] :
       /\ \A i, j \in 1..Len(s) : f[i] = f[j] => i = j
       /\ \A i \in 1..Len(s) : t[i] = s[f[i]]
       /\ \A i, j \in 1..Len(s) :
            i < j => \/ SortKey(t[i]) > SortKey(t[j])
                     \/ (SortKey(t[i]) = SortKey(t[j]) /\ f[i] < f[j])

\* C9: the score list is the reply's records sorted by the reported total,
\* descending and stable, so the first listed record of the largest total
\* is the one selection takes.
C9_StableDescendingSort ==
  (reply.kind = "array" /\ pc \in {"select", "draft", "write"}) =>
    /\ IsStableDescending(reply.records, scores)
    /\ Selected => best = reply.records[FirstMax(reply.records)]

C9_Witness ==
  /\ pc = "draft"
  /\ reply.records = <<Scored("1", 9), Scored("2", 9)>>
  /\ best = Scored("1", 9)
  /\ best.total # best.novelty + best.practical + best.excitement

\* C10: one sequential flow without retry: each API is called at most once
\* and in the order fetch, dedup, score, select, draft, write; drafting
\* needs a selected paper and a file is written only after drafting
\* returned text.
C10_Step ==
  /\ listingCalls' # listingCalls =>
       (listingCalls = 0 /\ scoreCalls = 0 /\ draftCalls = 0 /\ listingCalls' = 1)
  /\ scoreCalls' # scoreCalls =>
       (listingCalls = 1 /\ scoreCalls = 0 /\ draftCalls = 0 /\ scoreCalls' = 1
        /\ candidates = FilterCovered(papers, find_existing_arxiv_ids(mdFiles))
        /\ candidates # <<>>)
  /\ draftCalls' # draftCalls =>
       (listingCalls = 1 /\ scoreCalls = 1 /\ draftCalls = 0 /\ draftCalls' = 1
        /\ paper \in Range(candidates))
  /\ (written' # written /\ written' # {}) =>
       (draftCalls = 1 /\ article_body \in BodyTexts /\ written = {})

C10_SequentialNoRetry == [][pc' # "start" => C10_Step]_vars

C10_Witness ==
  /\ pc = "exit"
  /\ exitStatus = 0
  /\ written # {}
  /\ scoreOutcome \in CaughtScoreFailures
  /\ listingCalls = 1 /\ scoreCalls = 1 /\ draftCalls = 1

====
